---- MODULE Spec2Model ----
(***************************************************************************)
(* olapy/core/mdx/tools/config_file_parser.py : class ConfigParser.         *)
(*                                                                         *)
(* Python values are records tagged with their kind k, the payload in a   *)
(* field of its own: "null" None, "bool" b, "int" i, "str" s, "seq" q (a   *)
(* list), "map" m (a decoded mapping: a function on its key strings).      *)
(* A computation that may raise yields [ok |-> TRUE, val |-> v] or         *)
(* [ok |-> FALSE, exc |-> exception class, msg |-> its argument].          *)
(* Paths are sequences of tokens, the separator "/" being a token.         *)
(***************************************************************************)
EXTENDS Integers, Sequences, FiniteSets, TLC

VARIABLES environ, cube_path, file_name, fs, last, open_handles

vars == <<environ, cube_path, file_name, fs, last, open_handles>>

---------------------------------------------------------------------------
(* Bounds of the enumerated documents *)

MaxKeys == 2

MaxCols == 2

MaxDims == 2

BSeq(S, n) == UNION {[1..m -> S] : m \in 0..n}

---------------------------------------------------------------------------
(* Python values *)

None == [k |-> "null"]

Bool(b) == [k |-> "bool", b |-> b]

PyInt(i) == [k |-> "int", i |-> i]

Str(s) == [k |-> "str", s |-> s]

List(q) == [k |-> "seq", q |-> q]

Map(f) == [k |-> "map", m |-> f]

StrList(q) == List([i \in 1..Len(q) |-> Str(q[i])])

Ok(v) == [ok |-> TRUE, val |-> v]

Raise(exc, msg) == [ok |-> FALSE, exc |-> exc, msg |-> msg]

(* obj[key] with key a str literal: dict lookup, KeyError(key) when the
   key is missing; None, bool and int are not subscriptable, list and str
   indices must be integers: TypeError *)
GetItem(obj, key) ==
    IF obj.k = "map"
    THEN IF key \in DOMAIN obj.m THEN Ok(obj.m[key]) ELSE Raise("KeyError", key)
    ELSE Raise("TypeError", "not subscriptable by str")

(* r[key] where r is the outcome of the evaluation of the subscripted
   expression: an exception raised there propagates *)
Sub(r, key) == IF r.ok THEN GetItem(r.val, key) ELSE r

(* key in obj, for obj a dict (the only case the code reaches) *)
Contains(obj, key) == obj.k = "map" /\ key \in DOMAIN obj.m

(* iter(obj): the elements of a list, the keys of a dict (a dict of the
   enumerated documents in an iterated position has at most one key, so
   the order is determined), the characters of a str (only a str of at
   most one character is iterated); None, bool, int raise TypeError *)
RECURSIVE SetToSeq(_)
SetToSeq(S) ==
    IF S = {} THEN <<>>
    ELSE LET x == CHOOSE y \in S : TRUE IN <<x>> \o SetToSeq(S \ {x})

Iter(obj) ==
    CASE obj.k = "seq" -> Ok(obj.q)
      [] obj.k = "map" /\ Cardinality(DOMAIN obj.m) <= 1 ->
            Ok([i \in 1..Cardinality(DOMAIN obj.m) |-> Str(SetToSeq(DOMAIN obj.m)[i])])
      [] obj.k = "str" /\ Len(obj.s) <= 1 ->
            Ok(IF obj.s = "" THEN <<>> ELSE <<obj>>)
      [] obj.k \in {"null", "bool", "int"} -> Raise("TypeError", "not iterable")

Hashable(obj) == obj.k \notin {"seq", "map"}

---------------------------------------------------------------------------
(* Paths and the process environment *)

SEP == "/"

(* os.path.join(a, b) on POSIX: an absolute b discards a; otherwise b is
   appended, after a separator unless a is empty or already ends in one *)
Join(a, b) ==
    IF b # <<>> /\ b[1] = SEP THEN b
    ELSE IF a = <<>> \/ a[Len(a)] = SEP THEN a \o b
    ELSE a \o <<SEP>> \o b

(* expanduser("~"): the home directory of the user running the process *)
expanduser == <<SEP, "home", SEP, "u">>

DEFAULT_FILE_NAME == <<"cubes-config.yml">>

(* values the OLAPY_PATH variable is given: a directory, the same with a
   trailing separator, the empty string *)
EnvPaths == {<<SEP, "srv">>, <<SEP, "srv", SEP>>, <<>>}

(* cube_path arguments of the constructor: <<>> stands for None or "" *)
ArgPaths == {<<>>, <<SEP, "opt", SEP, "cubes">>}

(* mutant: the override taken as the base path itself *)
get_cube_path_exact(env) ==
    IF env.set THEN env.OLAPY_PATH
    ELSE Join(Join(expanduser, <<"olapy-data">>), <<"cubes">>)

_get_cube_path(env) ==
    LET home_directory == IF env.set THEN env.OLAPY_PATH ELSE expanduser
    IN Join(Join(home_directory, <<"olapy-data">>), <<"cubes">>)

get_config_file_path == Join(cube_path, file_name)

(* os.path.isfile(p): the file system holds at most one regular file *)
isfile(p) == fs.exists /\ fs.path = p

config_file_exists == isfile(get_config_file_path)

---------------------------------------------------------------------------
(* The model objects of olapy.core.mdx.tools.models *)

Facts(table_name, keys, measures) ==
    [table_name |-> table_name, keys |-> keys, measures |-> measures]

Dimension(name, displayName, columns) ==
    [name |-> name, displayName |-> displayName, columns |-> columns]

Cube(name, source, facts, dimensions) ==
    [name |-> name, source |-> source, facts |-> facts, dimensions |-> dimensions]

---------------------------------------------------------------------------
(* Builtins used by the builder *)

Min(a, b) == IF a <= b THEN a ELSE b

(* mutant: sequences of different lengths are rejected *)
zip_strict(a, b) ==
    LET ia == Iter(a)
        ib == Iter(b)
    IN IF ~ia.ok THEN ia
       ELSE IF ~ib.ok THEN ib
       ELSE IF Len(ia.val) # Len(ib.val) THEN Raise("ValueError", "lengths differ")
       ELSE Ok([i \in 1..Len(ia.val) |-> <<ia.val[i], ib.val[i]>>])

(* zip(a, b): both arguments are iterated (a first); the pairs stop with
   the shorter one *)
zip(a, b) ==
    LET ia == Iter(a)
        ib == Iter(b)
    IN IF ~ia.ok THEN ia
       ELSE IF ~ib.ok THEN ib
       ELSE Ok([i \in 1..Min(Len(ia.val), Len(ib.val)) |-> <<ia.val[i], ib.val[i]>>])

(* a dict is a function on its keys; {} is the function of empty domain *)
EmptyDict == [x \in {} |-> None]

DictSet(d, key, val) ==
    [x \in DOMAIN d \cup {key} |-> IF x = key THEN val ELSE d[x]]

(* dict(pairs): the pairs are inserted in order, a later pair replaces an
   earlier one of the same key; an unhashable key raises TypeError *)
RECURSIVE dict_update(_, _)
dict_update(d, pairs) ==
    IF pairs = <<>> THEN Ok(d)
    ELSE IF ~Hashable(pairs[1][1]) THEN Raise("TypeError", "unhashable type")
    ELSE dict_update(DictSet(d, pairs[1][1], pairs[1][2]), Tail(pairs))

dict(pairs) == dict_update(EmptyDict, pairs)

(* mutant: every assignment appends an item *)
OrderedDictAppend(items, key, val) == Append(items, <<key, val>>)

(* an OrderedDict is the sequence of its <<key, value>> items in insertion
   order; od[key] = val replaces in place the value of a key already there
   and appends a new key *)
OrderedDictSet(items, key, val) ==
    IF \E i \in 1..Len(items) : items[i][1] = key
    THEN [i \in 1..Len(items) |-> IF items[i][1] = key THEN <<key, val>> ELSE items[i]]
    ELSE Append(items, <<key, val>>)

OrderedDict(items) == [k |-> "OrderedDict", items |-> items]

PlainDict(d) == [k |-> "dict", d |-> d]

---------------------------------------------------------------------------
(* _construct_cubes_excel: the body of the with block *)

(* the first exception raised by a sequence of evaluations, or Ok(None) *)
RECURSIVE FirstRaise(_)
FirstRaise(rs) ==
    IF rs = <<>> THEN Ok(None)
    ELSE IF ~rs[1].ok THEN rs[1] ELSE FirstRaise(Tail(rs))

(* [Facts(table_name=..., keys=dict(zip(...)), measures=...)] *)
build_facts(config) ==
    LET facts         == GetItem(config, "facts")
        table_name    == Sub(facts, "table_name")
        columns_names == Sub(Sub(facts, "keys"), "columns_names")
        refs          == Sub(Sub(facts, "keys"), "refs")
        zipped        == IF ~columns_names.ok THEN columns_names
                         ELSE IF ~refs.ok THEN refs
                         ELSE zip(columns_names.val, refs.val)
        keys          == IF zipped.ok THEN dict(zipped.val) ELSE zipped
        measures      == Sub(facts, "measures")
        raised        == FirstRaise(<<table_name, columns_names, refs, zipped,
                                      keys, measures>>)
    IN IF ~raised.ok THEN raised
       ELSE Ok(<<Facts(table_name.val, PlainDict(keys.val), measures.val)>>)

(* OrderedDict((column['name'], column['name'] if 'column_new_name' not in
   column else column['column_new_name']) for column in columns), the
   generator being consumed item by item *)
RECURSIVE build_columns(_, _)
build_columns(items, columns) ==
    IF columns = <<>> THEN Ok(OrderedDict(items))
    ELSE LET column == Head(columns)
             key    == GetItem(column, "name")
             val    == IF ~Contains(column, "column_new_name")
                       THEN GetItem(column, "name")
                       ELSE GetItem(column, "column_new_name")
         IN IF ~key.ok THEN key
            ELSE IF ~val.ok THEN val
            ELSE IF ~Hashable(key.val) THEN Raise("TypeError", "unhashable type")
            ELSE build_columns(OrderedDictSet(items, key.val, val.val), Tail(columns))

(* Dimension(name=..., displayName=..., columns=OrderedDict(...) if
   'columns' in dimension['dimension'] else {}) *)
build_dimension(dimension) ==
    LET d           == GetItem(dimension, "dimension")
        name        == Sub(d, "name")
        displayName == Sub(d, "displayName")
        iterated    == IF Contains(d.val, "columns")
                       THEN Iter(d.val.m["columns"]) ELSE Ok(<<>>)
        columns     == IF ~Contains(d.val, "columns") THEN Ok(PlainDict(EmptyDict))
                       ELSE IF ~iterated.ok THEN iterated
                       ELSE build_columns(<<>>, iterated.val)
    IN IF ~name.ok THEN name
       ELSE IF ~displayName.ok THEN displayName
       ELSE IF ~columns.ok THEN columns
       ELSE Ok(Dimension(name.val, displayName.val, columns.val))

(* mutant: the dimensions are collected in reverse order *)
RECURSIVE build_dimensions_reversed(_, _)
build_dimensions_reversed(built, entries) ==
    IF entries = <<>> THEN Ok(built)
    ELSE LET dim == build_dimension(Head(entries))
         IN IF ~dim.ok THEN dim
            ELSE build_dimensions_reversed(<<dim.val>> \o built, Tail(entries))

(* [Dimension(...) for dimension in config['dimensions']] *)
RECURSIVE build_dimensions_from(_, _)
build_dimensions_from(built, entries) ==
    IF entries = <<>> THEN Ok(built)
    ELSE LET dim == build_dimension(Head(entries))
         IN IF ~dim.ok THEN dim
            ELSE build_dimensions_from(Append(built, dim.val), Tail(entries))

build_dimensions(config) ==
    LET dimensions == GetItem(config, "dimensions")
        entries    == IF dimensions.ok THEN Iter(dimensions.val) ELSE dimensions
    IN IF ~entries.ok THEN entries
       ELSE build_dimensions_from(<<>>, entries.val)

(* return [Cube(name=config['name'], source=config['source'], facts=facts,
   dimensions=dimensions)] ; no handler encloses the builder (the
   try/except of the source is commented out), an exception propagates *)
build_cube(config, facts, dimensions) ==
    LET name   == GetItem(config, "name")
        source == GetItem(config, "source")
    IN IF ~name.ok THEN name
       ELSE IF ~source.ok THEN source
       ELSE Ok(<<Cube(name.val, source.val, facts, dimensions)>>)

---------------------------------------------------------------------------
(* The handlers. A run is [out, trace, handles]: the outcome, the steps
   taken on the file system, the number of open file handles at the end *)

(* open(path): the content of the file, IOError when there is none *)
open_file(path) ==
    IF isfile(path) THEN Ok(fs.content)
    ELSE Raise("IOError", "No such file or directory")

(* yaml.load(config_file): the decoded document, or the decoder's error
   when the content is not a well-formed document *)
yaml_load(content) ==
    IF content.wellformed THEN Ok(content.doc)
    ELSE Raise("YAMLError", "could not parse the document")

(* mutant: the file is closed only when the block did not raise *)
file_exit_unless_raised(handles, block) == IF block.ok THEN handles - 1 ELSE handles

(* leaving `with open(...) as config_file:` closes the file, whether the
   block returned, fell through or raised *)
file_exit(handles, block) == handles - 1

(* with open(...) as config_file: <block> *)
with_open(handles, file, out, block) ==
    IF ~file.ok THEN [out |-> file, trace |-> <<"open_failed">>, handles |-> handles]
    ELSE [out |-> out, trace |-> <<"open", "load", "close">>,
          handles |-> file_exit(handles + 1, block)]

Checked(run) == [run EXCEPT !.trace = <<"isfile">> \o @]

(* mutant: the document is loaded inside the try *)
xmla_authentication_load_in_try ==
    IF config_file_exists
    THEN LET file   == open_file(get_config_file_path)
             config == yaml_load(file.val)
             value  == GetItem(config.val, "xmla_authentication")
             out    == IF config.ok /\ value.ok THEN value ELSE Ok(Bool(FALSE))
         IN Checked(with_open(open_handles, file, out, out))
    ELSE [out |-> Ok(Bool(FALSE)), trace |-> <<"isfile">>, handles |-> open_handles]

xmla_authentication ==
    IF config_file_exists
    THEN LET file   == open_file(get_config_file_path)
             config == yaml_load(file.val)
             value  == GetItem(config.val, "xmla_authentication")
             out    == IF ~config.ok THEN config
                       ELSE IF value.ok THEN value
                       ELSE Ok(Bool(FALSE))
         IN Checked(with_open(open_handles, file, out, out))
    ELSE [out |-> Ok(Bool(FALSE)), trace |-> <<"isfile">>, handles |-> open_handles]

(* mutant: the lookups are made outside any try *)
get_cubes_names_no_try ==
    LET file   == open_file(get_config_file_path)
        config == yaml_load(file.val)
        name   == GetItem(config.val, "name")
        source == GetItem(config.val, "source")
        out    == IF ~config.ok THEN config
                  ELSE IF ~name.ok THEN name
                  ELSE IF ~source.ok THEN source
                  ELSE IF ~Hashable(name.val) THEN Raise("TypeError", "unhashable type")
                  ELSE Ok(PlainDict(DictSet(EmptyDict, name.val, source.val)))
    IN with_open(open_handles, file, out, out)

get_cubes_names ==
    LET file   == open_file(get_config_file_path)
        config == yaml_load(file.val)
        name   == GetItem(config.val, "name")
        source == GetItem(config.val, "source")
        out    == IF ~config.ok THEN config
                  ELSE IF name.ok /\ source.ok /\ Hashable(name.val)
                  THEN Ok(PlainDict(DictSet(EmptyDict, name.val, source.val)))
                  ELSE Raise("ValueError", "missed name or source tags")
    IN with_open(open_handles, file, out, out)

(* mutant: the try/except around the builder is in force *)
construct_cubes_excel_wrapped ==
    LET file       == open_file(get_config_file_path)
        config     == yaml_load(file.val)
        facts      == build_facts(config.val)
        dimensions == build_dimensions(config.val)
        block      == IF ~config.ok THEN config
                      ELSE IF ~facts.ok THEN facts
                      ELSE IF ~dimensions.ok THEN dimensions
                      ELSE Ok(None)
        out        == IF ~block.ok THEN block
                      ELSE build_cube(config.val, facts.val, dimensions.val)
        wrapped    == IF out.ok THEN out
                      ELSE Raise("ValueError", "Bad configuration in the configuration file")
    IN with_open(open_handles, file, wrapped, block)

_construct_cubes_excel ==
    LET file       == open_file(get_config_file_path)
        config     == yaml_load(file.val)
        facts      == build_facts(config.val)
        dimensions == build_dimensions(config.val)
        block      == IF ~config.ok THEN config
                      ELSE IF ~facts.ok THEN facts
                      ELSE IF ~dimensions.ok THEN dimensions
                      ELSE Ok(None)
        out        == IF ~block.ok THEN block
                      ELSE build_cube(config.val, facts.val, dimensions.val)
    IN with_open(open_handles, file, out, block)

(* mutant: the builder is entered without the existence check *)
construct_cubes_unchecked == Checked(_construct_cubes_excel)

construct_cubes ==
    IF config_file_exists
    THEN Checked(_construct_cubes_excel)
    ELSE [out |-> Raise("ValueError", "Config file doesn't exist"),
          trace |-> <<"isfile">>, handles |-> open_handles]

---------------------------------------------------------------------------
(* The configuration files the user may write *)

With(f, key, val) == [x \in DOMAIN f \cup {key} |-> IF x = key THEN val ELSE f[x]]

Without(f, key) == [x \in DOMAIN f \ {key} |-> f[x]]

ColumnNames == {"departement_id", "annee_id"}

Refs == {"orgunit.id", "time.id"}

(* a column entry {name: n} or {name: n, column_new_name: m} *)
Column(n, m) ==
    IF m = "" THEN Map([name |-> Str(n)])
    ELSE Map([name |-> Str(n), column_new_name |-> Str(m)])

Columns == {Column(n, m) : n \in {"type", "nom"}, m \in {"", "Name"}}

DimensionFields(n, d) == [name |-> Str(n), displayName |-> Str(d)]

DimensionEntry(fields) == Map([dimension |-> Map(fields)])

ExampleColumns == <<Column("type", ""), Column("nom", "Name")>>

ExampleDimension ==
    With(DimensionFields("orgunit", "Organisation"), "columns", List(ExampleColumns))

ExampleKeys ==
    [columns_names |-> StrList(<<"departement_id">>), refs |-> StrList(<<"orgunit.id">>)]

ExampleFacts ==
    [table_name |-> Str("stats_line"),
     keys       |-> Map(ExampleKeys),
     measures   |-> StrList(<<"montant", "salaire_brut_mensuel">>)]

(* the cube of the class documentation *)
Example ==
    [xmla_authentication |-> Bool(FALSE),
     name       |-> Str("labster"),
     source     |-> Str("csv"),
     facts      |-> Map(ExampleFacts),
     dimensions |-> List(<<DimensionEntry(ExampleDimension)>>)]

WithKeys(keys) == With(Example, "facts", Map(With(ExampleFacts, "keys", keys)))

WithDimensions(dims) == With(Example, "dimensions", dims)

WithDimension(fields) == WithDimensions(List(<<DimensionEntry(fields)>>))

WithColumns(cols) == WithDimension(With(ExampleDimension, "columns", cols))

(* values of the xmla_authentication key *)
FlagDocs ==
    {With(Example, "xmla_authentication", x) :
        x \in {Bool(TRUE), Bool(FALSE), Str("yes"), PyInt(1), None}}
    \cup {Without(Example, "xmla_authentication")}

(* the parallel sequences facts.keys.columns_names and facts.keys.refs *)
KeysDocs ==
    {WithKeys(Map([columns_names |-> StrList(c), refs |-> StrList(r)])) :
        c \in BSeq(ColumnNames, MaxKeys), r \in BSeq(Refs, MaxKeys)}

(* the columns of a dimension *)
ColumnsDocs == {WithColumns(List(cols)) : cols \in BSeq(Columns, MaxCols)}

DimensionChoices ==
    {DimensionEntry(DimensionFields("orgunit", "Organisation")),
     DimensionEntry(With(DimensionFields("time", "Time"), "columns",
                         List(<<Column("nom", "")>>))),
     DimensionEntry([name |-> Str("geo")])}

(* the dimensions sequence *)
DimensionsDocs == {WithDimensions(List(d)) : d \in BSeq(DimensionChoices, MaxDims)}

(* a required key missing *)
MissingKeyDocs ==
    {Without(Example, key) : key \in {"name", "source", "facts", "dimensions"}}
    \cup {Without(Without(Example, "name"), "source"),
          Without(Without(Example, "name"), "facts"),
          Without(Without(Example, "source"), "dimensions")}
    \cup {With(Example, "facts", Map(Without(ExampleFacts, key))) :
             key \in {"table_name", "keys", "measures"}}
    \cup {WithKeys(Map(Without(ExampleKeys, key))) : key \in {"columns_names", "refs"}}
    \cup {WithDimension(Without(ExampleDimension, key)) :
             key \in {"name", "displayName", "columns"}}
    \cup {WithDimensions(List(<<Map([name |-> Str("orgunit")])>>)),
          WithColumns(List(<<Column("type", ""), Map([column_new_name |-> Str("Name")])>>))}

(* a value of the wrong shape *)
WrongShapeDocs ==
    {With(Example, "facts", None), With(Example, "facts", StrList(<<"stats_line">>)),
     WithKeys(None),
     WithKeys(Map(With(ExampleKeys, "columns_names", None))),
     WithKeys(Map(With(ExampleKeys, "refs", PyInt(1)))),
     WithKeys(Map(With(ExampleKeys, "columns_names", List(<<StrList(<<"a">>)>>)))),
     WithKeys(Map(With(ExampleKeys, "columns_names", Str("x")))),
     WithDimensions(None), WithDimensions(Str("x")),
     WithDimensions(Map([dimension |-> Map(ExampleDimension)])),
     WithDimensions(Map(EmptyDict)),
     WithDimensions(List(<<None>>)),
     WithDimension(With(ExampleDimension, "columns", None)),
     WithColumns(List(<<Str("type")>>)),
     WithColumns(List(<<Map([name |-> StrList(<<"type">>)])>>)),
     With(Example, "name", StrList(<<"labster">>))}

(* the content of a file: a well-formed document and what it decodes to
   (a mapping, or an empty document, a sequence, a scalar), or bytes the
   decoder rejects *)
Decodable(doc) == [wellformed |-> TRUE, doc |-> doc]

Undecodable == [wellformed |-> FALSE, doc |-> None]

Contents ==
    {Decodable(Map(d)) : d \in FlagDocs \cup KeysDocs \cup ColumnsDocs
                               \cup DimensionsDocs \cup MissingKeyDocs \cup WrongShapeDocs}
    \cup {Decodable(None), Decodable(List(<<>>)), Decodable(Str("labster")), Undecodable}

---------------------------------------------------------------------------
(* The state machine: one ConfigParser, its process environment and the
   file system. `last` records the most recent call on the parser; it is
   cleared when the environment or the file system changes, so that it
   always describes a call made in the present surroundings *)

Unset == [set |-> FALSE, OLAPY_PATH |-> <<>>]

NoFile == [exists |-> FALSE, path |-> <<>>, content |-> Undecodable]

NoCall == [op |-> "none", arg |-> <<>>, out |-> Ok(None), trace |-> <<>>]

Call(op, run) == [op |-> op, arg |-> <<>>, out |-> run.out, trace |-> run.trace]

(* where a configuration file may be written *)
FilePaths ==
    {Join(d, DEFAULT_FILE_NAME) :
        d \in {_get_cube_path(Unset),
               _get_cube_path([set |-> TRUE, OLAPY_PATH |-> <<SEP, "srv">>]),
               <<SEP, "srv">>,
               <<SEP, "opt", SEP, "cubes">>}}

Init ==
    /\ environ = Unset
    /\ cube_path = _get_cube_path(Unset)
    /\ file_name = DEFAULT_FILE_NAME
    /\ fs = NoFile
    /\ last = [NoCall EXCEPT !.op = "__init__"]
    /\ open_handles = 0

(* os.environ['OLAPY_PATH'] = p *)
SetEnv(p) ==
    /\ environ' = [set |-> TRUE, OLAPY_PATH |-> p]
    /\ last' = NoCall
    /\ UNCHANGED <<cube_path, file_name, fs, open_handles>>

(* del os.environ['OLAPY_PATH'] *)
UnsetEnv ==
    /\ environ.set
    /\ environ' = Unset
    /\ last' = NoCall
    /\ UNCHANGED <<cube_path, file_name, fs, open_handles>>

(* the user writes a configuration file *)
WriteFile(p, c) ==
    /\ ~fs.exists
    /\ fs' = [exists |-> TRUE, path |-> p, content |-> c]
    /\ last' = NoCall
    /\ UNCHANGED <<environ, cube_path, file_name, open_handles>>

(* the user removes it *)
RemoveFile ==
    /\ fs.exists
    /\ fs' = NoFile
    /\ last' = NoCall
    /\ UNCHANGED <<environ, cube_path, file_name, open_handles>>

(* ConfigParser(cube_path=arg, file_name=name) *)
__init__(arg, name) ==
    /\ cube_path' = IF arg # <<>> THEN arg ELSE _get_cube_path(environ)
    /\ file_name' = name
    /\ last' = [NoCall EXCEPT !.op = "__init__", !.arg = arg]
    /\ UNCHANGED <<environ, fs, open_handles>>

Returns(op, run) ==
    /\ last' = Call(op, run)
    /\ open_handles' = run.handles
    /\ UNCHANGED <<environ, cube_path, file_name, fs>>

ConfigFileExists ==
    Returns("config_file_exists",
            [out |-> Ok(Bool(config_file_exists)), trace |-> <<"isfile">>,
             handles |-> open_handles])

XmlaAuthentication == Returns("xmla_authentication", xmla_authentication)

GetCubesNames == Returns("get_cubes_names", get_cubes_names)

ConstructCubes == Returns("construct_cubes", construct_cubes)

Next ==
    \/ \E p \in EnvPaths : SetEnv(p)
    \/ UnsetEnv
    \/ \E p \in FilePaths, c \in Contents : WriteFile(p, c)
    \/ RemoveFile
    \/ \E arg \in ArgPaths : __init__(arg, DEFAULT_FILE_NAME)
    \/ ConfigFileExists
    \/ XmlaAuthentication
    \/ GetCubesNames
    \/ ConstructCubes

Spec == Init /\ [][Next]_vars

---------------------------------------------------------------------------
(* The documented file format: what a valid document is *)

ValidColumn(c) ==
    /\ c.k = "map"
    /\ "name" \in DOMAIN c.m
    /\ c.m.name.k = "str"
    /\ "column_new_name" \in DOMAIN c.m => c.m.column_new_name.k = "str"

ValidDimension(e) ==
    /\ e.k = "map"
    /\ "dimension" \in DOMAIN e.m
    /\ e.m.dimension.k = "map"
    /\ {"name", "displayName"} \subseteq DOMAIN e.m.dimension.m
    /\ "columns" \in DOMAIN e.m.dimension.m =>
          /\ e.m.dimension.m.columns.k = "seq"
          /\ \A j \in DOMAIN e.m.dimension.m.columns.q :
                ValidColumn(e.m.dimension.m.columns.q[j])

ValidFacts(f) ==
    /\ f.k = "map"
    /\ {"table_name", "keys", "measures"} \subseteq DOMAIN f.m
    /\ f.m.keys.k = "map"
    /\ {"columns_names", "refs"} \subseteq DOMAIN f.m.keys.m
    /\ f.m.keys.m.columns_names.k = "seq"
    /\ \A i \in DOMAIN f.m.keys.m.columns_names.q : f.m.keys.m.columns_names.q[i].k = "str"
    /\ f.m.keys.m.refs.k = "seq"

ValidBody(doc) ==
    /\ doc.k = "map"
    /\ {"facts", "dimensions"} \subseteq DOMAIN doc.m
    /\ ValidFacts(doc.m.facts)
    /\ doc.m.dimensions.k = "seq"
    /\ \A i \in DOMAIN doc.m.dimensions.q : ValidDimension(doc.m.dimensions.q[i])

ValidDocument(doc) ==
    /\ ValidBody(doc)
    /\ {"name", "source"} \subseteq DOMAIN doc.m

(* the state of the configuration file the parser looks at *)
Decoded == fs.content.wellformed

Document == fs.content.doc

(* the last call was op, made on an existing file that decodes *)
CalledOnDocument(op) == last.op = op /\ config_file_exists /\ Decoded

TheCube == last.out.val[1]

---------------------------------------------------------------------------
(* C1: construct_cubes() on an existing file holding a valid document
   returns exactly one Cube, with the document's name and source, one Facts
   and one Dimension per entry of the document's dimensions, in order *)
C1_OneCubePerValidDocument ==
    (CalledOnDocument("construct_cubes") /\ ValidDocument(Document)) =>
        /\ last.out.ok
        /\ Len(last.out.val) = 1
        /\ TheCube.name = Document.m.name
        /\ TheCube.source = Document.m.source
        /\ Len(TheCube.facts) = 1
        /\ Len(TheCube.dimensions) = Len(Document.m.dimensions.q)
        /\ \A i \in DOMAIN TheCube.dimensions :
              /\ TheCube.dimensions[i].name = Document.m.dimensions.q[i].m.dimension.m.name
              /\ TheCube.dimensions[i].displayName =
                    Document.m.dimensions.q[i].m.dimension.m.displayName

C1_Witness ==
    /\ CalledOnDocument("construct_cubes")
    /\ ValidDocument(Document)
    /\ last.out.ok
    /\ Len(TheCube.dimensions) = 2
    /\ TheCube.dimensions[1].name # TheCube.dimensions[2].name

(* C7: construct_cubes() with no file at base_path/file_name raises the
   "Config file doesn't exist" error, returns no Cube and neither opens nor
   decodes the file; the existence check is the first step and the file is
   opened only when it said true *)
C7_NoFileNoCube ==
    last.op = "construct_cubes" =>
        /\ last.trace[1] = "isfile"
        /\ ~config_file_exists =>
              /\ last.out = Raise("ValueError", "Config file doesn't exist")
              /\ last.trace = <<"isfile">>
        /\ (\E i \in DOMAIN last.trace : last.trace[i] \in {"open", "open_failed", "load"})
              => config_file_exists

C7_Witness ==
    /\ last.op = "construct_cubes"
    /\ ~config_file_exists
    /\ fs.exists
    /\ ~last.out.ok

(* the parallel sequences of the document and the keys built from them *)
ColumnsNames == Document.m.facts.m.keys.m.columns_names.q

KeyRefs == Document.m.facts.m.keys.m.refs.q

Paired == 1..Min(Len(ColumnsNames), Len(KeyRefs))

BuiltKeys == TheCube.facts[1].keys.d

(* C8: Facts.keys pairs columns_names with refs by position, up to the
   length of the shorter one and without an error when the lengths differ;
   a column name not repeated at a later paired index maps to the ref of
   its index, and no other column name has an entry *)
C8_KeysArePositionalPairs ==
    (CalledOnDocument("construct_cubes") /\ ValidDocument(Document)) =>
        /\ last.out.ok
        /\ TheCube.facts[1].keys.k = "dict"
        /\ DOMAIN BuiltKeys = {ColumnsNames[i] : i \in Paired}
        /\ \A i \in Paired :
              (\A j \in Paired : j > i => ColumnsNames[j] # ColumnsNames[i])
                 => BuiltKeys[ColumnsNames[i]] = KeyRefs[i]

C8_Witness ==
    /\ CalledOnDocument("construct_cubes")
    /\ ValidDocument(Document)
    /\ last.out.ok
    /\ Len(ColumnsNames) = 2
    /\ Len(KeyRefs) = 1
    /\ BuiltKeys = (ColumnsNames[1] :> KeyRefs[1])

(* the declared columns of the i-th dimension entry and the mapping built *)
HasColumns(i) == "columns" \in DOMAIN Document.m.dimensions.q[i].m.dimension.m

Declared(i) == Document.m.dimensions.q[i].m.dimension.m.columns.q

ColumnName(c) == c.m.name

(* the display name a column entry asks for *)
Renamed(c) == IF "column_new_name" \in DOMAIN c.m THEN c.m.column_new_name ELSE c.m.name

BuiltColumns(i) == TheCube.dimensions[i].columns

(* the indices that declare a name for the first time, the position of
   such an index among them, the last index that declares the same name *)
Firsts(cols) == {j \in DOMAIN cols : \A h \in 1..(j - 1) : ColumnName(cols[h]) # ColumnName(cols[j])}

Rank(cols, j) == Cardinality({h \in Firsts(cols) : h <= j})

LastOf(cols, j) ==
    CHOOSE h \in DOMAIN cols :
        /\ ColumnName(cols[h]) = ColumnName(cols[j])
        /\ \A g \in DOMAIN cols : g > h => ColumnName(cols[g]) # ColumnName(cols[j])

(* C9 as stated: one entry per declared column, in declaration order,
   mapping the column's name to its column_new_name when supplied and to
   the name otherwise; an empty mapping when there is no columns key *)
C9_OneEntryPerDeclaredColumn ==
    (CalledOnDocument("construct_cubes") /\ ValidDocument(Document) /\ last.out.ok) =>
        \A i \in DOMAIN TheCube.dimensions :
            IF HasColumns(i)
            THEN /\ BuiltColumns(i).k = "OrderedDict"
                 /\ Len(BuiltColumns(i).items) = Len(Declared(i))
                 /\ \A j \in DOMAIN Declared(i) :
                       BuiltColumns(i).items[j] =
                           <<ColumnName(Declared(i)[j]), Renamed(Declared(i)[j])>>
            ELSE BuiltColumns(i) = PlainDict(EmptyDict)

(* C9 amended: one entry per distinct declared column name, in the order
   of the first declaration of each name, mapping the name to what the
   last column declared under that name asks for; an empty mapping when
   there is no columns key *)
C9_OneEntryPerDistinctColumnName ==
    (CalledOnDocument("construct_cubes") /\ ValidDocument(Document) /\ last.out.ok) =>
        \A i \in DOMAIN TheCube.dimensions :
            IF HasColumns(i)
            THEN /\ BuiltColumns(i).k = "OrderedDict"
                 /\ Len(BuiltColumns(i).items) = Cardinality(Firsts(Declared(i)))
                 /\ \A j \in Firsts(Declared(i)) :
                       BuiltColumns(i).items[Rank(Declared(i), j)] =
                           <<ColumnName(Declared(i)[j]),
                             Renamed(Declared(i)[LastOf(Declared(i), j)])>>
            ELSE BuiltColumns(i) = PlainDict(EmptyDict)

C9_Witness ==
    /\ CalledOnDocument("construct_cubes")
    /\ ValidDocument(Document)
    /\ last.out.ok
    /\ Len(TheCube.dimensions) = 1
    /\ HasColumns(1)
    /\ Len(Declared(1)) = 2
    /\ ColumnName(Declared(1)[1]) = ColumnName(Declared(1)[2])
    /\ Renamed(Declared(1)[1]) # Renamed(Declared(1)[2])
    /\ Len(BuiltColumns(1).items) = 1

(* C10: every call releases the file handle it opened, whether it returned
   or raised: after any sequence of calls no handle is open, and a trace
   that opened the file closes it afterwards *)
C10_NoHandleLeftOpen ==
    /\ open_handles = 0
    /\ \A i \in DOMAIN last.trace :
          last.trace[i] = "open" =>
              \E j \in DOMAIN last.trace : j > i /\ last.trace[j] = "close"

C10_Witness ==
    /\ last.op \in {"xmla_authentication", "get_cubes_names", "construct_cubes"}
    /\ ~last.out.ok
    /\ \E i \in DOMAIN last.trace : last.trace[i] = "open"
    /\ open_handles = 0

(* the two-level subpath of the default location *)
Subpath == <<"olapy-data", SEP, "cubes">>

StripSep(p) == IF p # <<>> /\ p[Len(p)] = SEP THEN SubSeq(p, 1, Len(p) - 1) ELSE p

(* the parser was just built without a cube_path argument *)
BuiltFromEnvironment == last.op = "__init__" /\ last.arg = <<>>

(* C2 as stated: with OLAPY_PATH set to P the base path is P exactly,
   nothing appended; with the variable unset it is <home>/olapy-data/cubes *)
C2_OverrideIsBasePathExactly ==
    BuiltFromEnvironment =>
        cube_path = IF environ.set THEN environ.OLAPY_PATH
                    ELSE expanduser \o <<SEP>> \o Subpath

(* C2 amended: OLAPY_PATH replaces the home directory only: with the
   variable set to P the base path is P/olapy-data/cubes (one separator
   between a non-empty P and the subpath, the bare relative subpath for an
   empty P), never P itself; with the variable unset it is
   <home>/olapy-data/cubes *)
C2_OverrideReplacesHomeDirectory ==
    BuiltFromEnvironment =>
        /\ environ.set /\ environ.OLAPY_PATH = <<>> => cube_path = Subpath
        /\ environ.set /\ environ.OLAPY_PATH # <<>> =>
              cube_path = StripSep(environ.OLAPY_PATH) \o <<SEP>> \o Subpath
        /\ environ.set => cube_path # environ.OLAPY_PATH
        /\ ~environ.set => cube_path = expanduser \o <<SEP>> \o Subpath

C2_Witness ==
    /\ BuiltFromEnvironment
    /\ environ.set
    /\ environ.OLAPY_PATH = <<SEP, "srv">>
    /\ cube_path = <<SEP, "srv", SEP, "olapy-data", SEP, "cubes">>

HasFlag == Document.k = "map" /\ "xmla_authentication" \in DOMAIN Document.m

(* C3: xmla_authentication() returns false when the file does not exist,
   when the key is absent and when its value is not a boolean, and the
   value itself when it is a boolean: what it returns is always a boolean *)
C3_FlagIsAlwaysBoolean ==
    (last.op = "xmla_authentication" /\ last.out.ok) =>
        /\ last.out.val.k = "bool"
        /\ last.out.val =
              IF config_file_exists /\ HasFlag /\ Document.m.xmla_authentication.k = "bool"
              THEN Document.m.xmla_authentication
              ELSE Bool(FALSE)

(* C4 as stated: xmla_authentication() never raises, whatever the state of
   the file, and answers false when the document fails to load *)
C4_FlagNeverRaises ==
    last.op = "xmla_authentication" =>
        /\ last.out.ok
        /\ (config_file_exists /\ ~Decoded) => last.out = Ok(Bool(FALSE))

(* C4 amended: xmla_authentication() returns a value when the file is
   absent or decodes (to a mapping or not; false when it decodes to
   something that is not a mapping); when the file exists and does not
   decode, the decoder's error is not caught and reaches the caller *)
C4_FlagRaisesOnlyDecodeError ==
    last.op = "xmla_authentication" =>
        /\ last.out.ok <=> ~(config_file_exists /\ ~Decoded)
        /\ ~last.out.ok => last.out.exc = "YAMLError"
        /\ ~config_file_exists => last.out = Ok(Bool(FALSE))
        /\ (config_file_exists /\ Decoded /\ Document.k # "map")
              => last.out = Ok(Bool(FALSE))

C4_Witness ==
    /\ last.op = "xmla_authentication"
    /\ config_file_exists
    /\ ~Decoded
    /\ ~last.out.ok

(* a required key of the cube is missing somewhere in the document *)
MissingInFacts(f) ==
    /\ f.k = "map"
    /\ \/ ~({"table_name", "keys", "measures"} \subseteq DOMAIN f.m)
       \/ /\ f.m.keys.k = "map"
          /\ ~({"columns_names", "refs"} \subseteq DOMAIN f.m.keys.m)

MissingInDimension(e) ==
    /\ e.k = "map"
    /\ \/ "dimension" \notin DOMAIN e.m
       \/ /\ e.m.dimension.k = "map"
          /\ \/ ~({"name", "displayName"} \subseteq DOMAIN e.m.dimension.m)
             \/ /\ "columns" \in DOMAIN e.m.dimension.m
                /\ e.m.dimension.m.columns.k = "seq"
                /\ \E j \in DOMAIN e.m.dimension.m.columns.q :
                      /\ e.m.dimension.m.columns.q[j].k = "map"
                      /\ "name" \notin DOMAIN e.m.dimension.m.columns.q[j].m

MissingRequiredKey(doc) ==
    /\ doc.k = "map"
    /\ \/ ~({"name", "source", "facts", "dimensions"} \subseteq DOMAIN doc.m)
       \/ MissingInFacts(doc.m.facts)
       \/ /\ doc.m.dimensions.k = "seq"
          /\ \E i \in DOMAIN doc.m.dimensions.q : MissingInDimension(doc.m.dimensions.q[i])

RequiredKeys ==
    {"name", "source", "facts", "dimensions", "table_name", "keys", "measures",
     "columns_names", "refs", "dimension", "displayName"}

(* C5 as stated: a structural problem met by construct_cubes() on an
   existing, decodable file ends in the one uniform error "bad
   configuration in the configuration file", never in the originating
   key error or type error *)
C5_UniformConfigurationError ==
    (CalledOnDocument("construct_cubes") /\ ~last.out.ok) =>
        /\ last.out.exc = "ValueError"
        /\ last.out.msg = "Bad configuration in the configuration file"

(* C5 amended: a structural problem met by construct_cubes() on an
   existing, decodable file ends in the originating error itself: the key
   error naming the missing key, or a type error for a value of the wrong
   shape; a document with a required key missing never yields a Cube, and
   no uniform configuration error is raised *)
C5_OriginatingErrorPropagates ==
    CalledOnDocument("construct_cubes") =>
        /\ MissingRequiredKey(Document) => ~last.out.ok
        /\ ValidDocument(Document) => last.out.ok
        /\ ~last.out.ok =>
              /\ last.out.exc \in {"KeyError", "TypeError"}
              /\ last.out.exc = "KeyError" =>
                    /\ last.out.msg \in RequiredKeys
                    /\ MissingRequiredKey(Document)
        /\ (Document.k = "map" /\ "facts" \notin DOMAIN Document.m)
              => last.out = Raise("KeyError", "facts")

C5_Witness ==
    /\ CalledOnDocument("construct_cubes")
    /\ Document.k = "map"
    /\ {"name", "source", "facts"} \subseteq DOMAIN Document.m
    /\ "dimensions" \notin DOMAIN Document.m
    /\ last.out = Raise("KeyError", "dimensions")

(* the document is valid but for its name or its source, which it lacks *)
LacksIdentity(doc) ==
    /\ ValidBody(doc)
    /\ ~({"name", "source"} \subseteq DOMAIN doc.m)

IdentityError == Raise("ValueError", "missed name or source tags")

(* C6 as stated: on a document that lacks name or source and is well
   formed otherwise, get_cubes_names() and construct_cubes() both end in
   the identity error, which is neither the generic configuration error
   nor a raw key error *)
C6_IdentityErrorEverywhere ==
    (/\ last.op \in {"get_cubes_names", "construct_cubes"}
     /\ config_file_exists /\ Decoded /\ LacksIdentity(Document))
        => last.out = IdentityError

(* C6 amended: on such a document get_cubes_names() ends in the identity
   error and returns no value; construct_cubes() ends in the raw key error
   of the first missing key (name before source), not in the identity
   error, and returns no value either *)
C6_IdentityErrorOnlyFromGetCubesNames ==
    (config_file_exists /\ Decoded /\ LacksIdentity(Document)) =>
        /\ last.op = "get_cubes_names" => last.out = IdentityError
        /\ last.op = "construct_cubes" =>
              last.out = Raise("KeyError",
                               IF "name" \notin DOMAIN Document.m THEN "name" ELSE "source")

C6_Witness ==
    /\ last.op = "get_cubes_names"
    /\ config_file_exists /\ Decoded /\ LacksIdentity(Document)
    /\ "name" \in DOMAIN Document.m
    /\ last.out = IdentityError

====
